---- MODULE Spec2Model ----
(***************************************************************************)
(* Model of go-git-searcher (main.go): the scan of the root directories    *)
(* with filepath.Walk, the extraction of the remote URL and the last       *)
(* commit date by getGitInfo, the sort of the collected projects and the   *)
(* CSV report.                                                             *)
(*                                                                         *)
(* Strings are sequences of bytes, so that Go's string comparison and      *)
(* strings.TrimSpace are computed, and a path is the sequence of its       *)
(* components ("w/a/.git" is <<w, a, .git>>).                               *)
(***************************************************************************)
EXTENDS Integers, Sequences, FiniteSets

VARIABLES
    directories,  \* main: the --directory values, in the order given
    broken,       \* file system: the paths whose lstat fails
    unreadable,   \* file system: the directories whose listing fails
    pc,           \* position of main
    rootIdx,      \* main: index of the root being scanned
    todo,         \* filepath.Walk: the paths still to visit, next first
    walkErr,      \* filepath.Walk: the error it returns for the current root
    cur,          \* callback: the path it was called with
    gitProjects,  \* main: the collected projects
    ctxElapsed,   \* getGitInfo: seconds elapsed since ctx was created
    remoteErr,    \* getGitInfo: whether the remote command returned an error
    remoteRepo,   \* getGitInfo: remoteRepo
    logDur,       \* getGitInfo: seconds the log command needs to complete
    logOut,       \* getGitInfo: exit status and output of the log command, once it ran to its end
    result,       \* getGitInfo: the returned (remoteRepo, lastCommitDate, err)
    stdout,       \* the lines printed, as <<tag, path>>
    report        \* git_projects_report.csv: its rows, <<>> while not written

vars == <<directories, broken, unreadable, pc, rootIdx, todo, walkErr, cur,
          gitProjects, ctxElapsed, remoteErr, remoteRepo, logDur, logOut,
          result, stdout, report>>

----------------------------------------------------------------------------
(* Bounds of the model *)

\* the largest number of --directory values
MaxRoots == 2
\* the largest number of --directory values in the runs checked for progress
MaxFairRoots == 1
\* the largest number of file system faults (failing lstat, failing listing)
MaxFaults == 1
\* the longest list of projects handed to the sort in SortSpec
MaxLen == 3
\* seconds a quick git command takes
Fast == 1
\* seconds a slow git command takes (less than the timeout)
Slow == 6
\* seconds a hanging git command would take (more than the timeout)
Hang == 11

\* context.WithTimeout(context.Background(), 10*time.Second)
Timeout == 10

----------------------------------------------------------------------------
(* Strings *)

Nil == "nil"

\* "w", "a", "b", "c", "m", "nx", ".l", ".git", "x", "xy" as bytes
S_w == <<119>>
S_a == <<97>>
S_b == <<98>>
S_c == <<99>>
S_m == <<109>>
S_nx == <<110, 120>>
S_dotl == <<46, 108>>
S_x == <<120>>
S_xy == <<120, 121>>
DotGit == <<46, 103, 105, 116>>
NL == <<10>>
SP == <<32>>

\* s < t on Go strings: bytewise lexicographic
RECURSIVE StrLess(_, _)
StrLess(s, t) ==
    IF t = <<>> THEN FALSE
    ELSE IF s = <<>> THEN TRUE
    ELSE IF Head(s) # Head(t) THEN Head(s) < Head(t)
    ELSE StrLess(Tail(s), Tail(t))

IsSpace(b) == b \in {9, 10, 11, 12, 13, 32}

RECURSIVE TrimLeft(_)
TrimLeft(s) == IF s # <<>> /\ IsSpace(Head(s)) THEN TrimLeft(Tail(s)) ELSE s

RECURSIVE TrimRight(_)
TrimRight(s) ==
    IF s # <<>> /\ IsSpace(s[Len(s)]) THEN TrimRight(SubSeq(s, 1, Len(s) - 1)) ELSE s

\* strings.TrimSpace
TrimSpace(s) == TrimRight(TrimLeft(s))

\* strings.TrimSpace on a path: spaces before its first and after its last component
TrimPath(p) ==
    IF p = <<>> THEN p
    ELSE IF Len(p) = 1 THEN <<TrimSpace(p[1])>>
    ELSE <<TrimLeft(p[1])>> \o SubSeq(p, 2, Len(p) - 1) \o <<TrimRight(p[Len(p)])>>

\* strings.HasSuffix(path, "/.git")
HasSuffixGit(path) == Len(path) >= 2 /\ path[Len(path)] = DotGit

\* filepath.Dir and filepath.Base
Dir(path) == SubSeq(path, 1, Len(path) - 1)
Base(path) == path[Len(path)]

----------------------------------------------------------------------------
(* The file system the program is run on *)

FSDirs ==
    { <<S_w>>,
      <<S_w, S_a>>,
      <<S_w, S_a, DotGit>>,
      <<S_w, S_a, DotGit, S_m>>,
      <<S_w, S_a, DotGit, S_m, DotGit>>,
      <<S_w, S_b>> }

\* w/.l is a file; w/b/.git is a file too, as in a linked worktree
FSFiles == { <<S_w, S_dotl>>, <<S_w, S_b, DotGit>> }

FSPaths == FSDirs \cup FSFiles

\* the --directory values tried: "w " and "nx", which does not exist
RootChoices == { <<S_w \o SP>>, <<S_nx>> }

RECURSIVE SeqsUpTo(_, _)
SeqsUpTo(S, n) ==
    IF n = 0 THEN { <<>> }
    ELSE LET shorter == SeqsUpTo(S, n - 1)
         IN  shorter \cup { Append(q, x) : q \in {r \in shorter : Len(r) = n - 1}, x \in S }

\* the names in a directory, sorted as readDirNames sorts them
RECURSIVE SortedNames(_)
SortedNames(S) ==
    IF S = {} THEN <<>>
    ELSE LET m == CHOOSE x \in S : \A y \in S \ {x} : StrLess(x, y)
         IN  <<m>> \o SortedNames(S \ {m})

ChildNames(path) == { Base(p) : p \in { q \in FSPaths : Len(q) = Len(path) + 1 /\ Dir(q) = path } }

RECURSIVE Prefixed(_, _)
Prefixed(path, names) ==
    IF names = <<>> THEN <<>>
    ELSE <<Append(path, Head(names))>> \o Prefixed(path, Tail(names))

\* filepath.Join(path, name) for each name of the directory, in order
Children(path) == Prefixed(path, SortedNames(ChildNames(path)))

LstatFails(path) == path \notin FSPaths \/ path \in broken
IsDir(path) == path \in FSDirs
ReadDirFails(path) == path \in unreadable

----------------------------------------------------------------------------
(* Times and the git commands *)

\* time.Time{}
ZeroTime == [wall |-> 0, off |-> 0]

\* what "git log -1 --format=%cd --date=iso" prints: a date with its offset,
\* "YYYY-MM-DD HH:MM:SS +ZZZZ", or text of another shape
Garbage == [wellFormed |-> FALSE, wall |-> 0, off |-> 0]
DateA == [wellFormed |-> TRUE, wall |-> 21, off |-> 1]
DateB == [wellFormed |-> TRUE, wall |-> 20, off |-> -1]

\* time.Parse("2006-01-02 15:04:05 -0700", s)
ParseDate(s) ==
    IF s.wellFormed
    THEN [err |-> Nil, t |-> [wall |-> s.wall, off |-> s.off]]
    ELSE [err |-> "parse", t |-> ZeroTime]

\* the instant a time.Time denotes
Instant(t) == t.wall - t.off

\* t.After(u)
After(t, u) == Instant(t) > Instant(u)

\* t.Format("2006-01-02 15:04:05"): the wall clock of t, without its offset
Format(t) == t.wall

\* how long a command may take, and what it does when left to complete
Durations == { Fast, Slow, Hang }
RemoteOutcomes == { [exit |-> 1, out |-> <<>>], [exit |-> 0, out |-> S_x \o NL] }
LogOutcomes ==
    { [exit |-> 1, out |-> Garbage], [exit |-> 0, out |-> Garbage], [exit |-> 0, out |-> DateA] }

\* ctx.Err() once `t` seconds of the context have elapsed
CtxErr(t) == IF t >= Timeout THEN "DeadlineExceeded" ELSE Nil

Min(a, b) == IF a < b THEN a ELSE b

\* the seconds the log command has before ctx kills it: both commands run
\* under the one ctx created at the top of getGitInfo
LogBudget(elapsed) == Timeout - elapsed

\* a command that has not run to its end
NoOutput == [exit |-> -1, out |-> Garbage]

NoResult == [remote |-> <<>>, date |-> ZeroTime, err |-> Nil]

----------------------------------------------------------------------------
(* The sort and the report *)

\* the comparator with the older commit first
LessOldestFirst(a, b) ==
    IF a.RemoteRepo # <<>> /\ b.RemoteRepo # <<>>
    THEN IF a.RemoteRepo = b.RemoteRepo
         THEN After(b.LastCommitDate, a.LastCommitDate)
         ELSE StrLess(a.RemoteRepo, b.RemoteRepo)
    ELSE StrLess(a.ProjectName, b.ProjectName)

\* the comparator with the remote URLs descending
LessRemoteDescending(a, b) ==
    IF a.RemoteRepo # <<>> /\ b.RemoteRepo # <<>>
    THEN IF a.RemoteRepo = b.RemoteRepo
         THEN After(a.LastCommitDate, b.LastCommitDate)
         ELSE StrLess(b.RemoteRepo, a.RemoteRepo)
    ELSE StrLess(a.ProjectName, b.ProjectName)

\* the comparator with the names descending
LessNameDescending(a, b) ==
    IF a.RemoteRepo # <<>> /\ b.RemoteRepo # <<>>
    THEN IF a.RemoteRepo = b.RemoteRepo
         THEN After(a.LastCommitDate, b.LastCommitDate)
         ELSE StrLess(a.RemoteRepo, b.RemoteRepo)
    ELSE StrLess(b.ProjectName, a.ProjectName)

\* the comparator given to sort.Slice, on two projects
Less(a, b) ==
    IF a.RemoteRepo # <<>> /\ b.RemoteRepo # <<>>
    THEN IF a.RemoteRepo = b.RemoteRepo
         THEN After(a.LastCommitDate, b.LastCommitDate)
         ELSE StrLess(a.RemoteRepo, b.RemoteRepo)
    ELSE StrLess(a.ProjectName, b.ProjectName)

\* a swap that loses data[i]
SwapOverwrite(data, i, j) == [data EXCEPT ![i] = data[j]]

\* data.Swap(i, j)
Swap(data, i, j) == [data EXCEPT ![i] = data[j], ![j] = data[i]]

\* for j := i; j > a && less(j, j-1); j-- { swap(j, j-1) }
RECURSIVE InsertLoop(_, _)
InsertLoop(data, j) ==
    IF j > 1 /\ Less(data[j], data[j - 1])
    THEN InsertLoop(Swap(data, j, j - 1), j - 1)
    ELSE data

RECURSIVE SortLoop(_, _)
SortLoop(data, i) ==
    IF i > Len(data) THEN data ELSE SortLoop(InsertLoop(data, i), i + 1)

\* sort.Slice on a slice of at most 12 elements: an insertion sort
SortSlice(data) == SortLoop(data, 2)

Header == <<"Project name", "Path", "Remote repository", "Last commit date">>

\* the fields written for one project
Row(project) ==
    <<project.ProjectName, project.Path, project.RemoteRepo, Format(project.LastCommitDate)>>

RECURSIVE Rows(_)
Rows(projects) ==
    IF projects = <<>> THEN <<>> ELSE <<Row(Head(projects))>> \o Rows(Tail(projects))

\* the rows the csv writer is given
ReportRows(projects) == <<Header>> \o Rows(projects)

----------------------------------------------------------------------------
(* The decisions of main, of the callback and of getGitInfo *)

\* the check with one directory refused too
FewDirectories(dirs) == Len(dirs) <= 1

\* main: len(directories) == 0
NoDirectories(dirs) == Len(dirs) = 0

\* the callback handing the error back to filepath.Walk
WalkFnErrPropagated == "err"

\* callback: what it returns when called with an error
WalkFnErrResult == Nil

\* callback: what it returns after a .git directory, whether the project was
\* recorded or skipped
GitDirResult == Nil

\* the callback recording the project whatever getGitInfo returned
SkipNever(err) == FALSE

\* callback: err != nil after getGitInfo, the project is not recorded
SkipProject(err) == err # Nil

\* getGitInfo returning on any error of the remote command
RemoteFatalOnAnyError(cmdErr, ctxErr) == cmdErr

\* getGitInfo: the remote command's error ends the extraction
RemoteFatal(cmdErr, ctxErr) == cmdErr /\ ctxErr = "DeadlineExceeded"

\* filepath.Walk after the callback returned `ret` for the path at the head
\* of todo: nil goes on (into `kids`, the entries of a readable directory),
\* SkipDir leaves the directory out, an error ends the walk
AfterCallback(ret, kids) ==
    IF ret = Nil THEN [todo |-> kids \o Tail(todo), err |-> walkErr]
    ELSE IF ret = "SkipDir" THEN [todo |-> Tail(todo), err |-> walkErr]
    ELSE [todo |-> <<>>, err |-> ret]

\* one line of output
Emit(out, tag, path) == Append(out, <<tag, path>>)

----------------------------------------------------------------------------
(* The program *)

\* the faults tried: an entry that cannot be lstat-ed (a directory, a file),
\* a directory that cannot be listed (the root, a project, a .git directory)
BrokenChoices == { <<S_w, S_dotl>>, <<S_w, S_a>> }
UnreadableChoices == { <<S_w>>, <<S_w, S_a>>, <<S_w, S_a, DotGit>> }

\* the file systems tried: at most MaxFaults faults
FaultChoices ==
    { f \in [broken : SUBSET BrokenChoices, unreadable : SUBSET UnreadableChoices] :
        Cardinality(f.broken) + Cardinality(f.unreadable) <= MaxFaults }

Locals0 ==
    /\ cur = <<>>
    /\ ctxElapsed = 0
    /\ remoteErr = FALSE
    /\ remoteRepo = <<>>
    /\ logDur = 0
    /\ logOut = NoOutput
    /\ result = NoResult

ResetLocals ==
    /\ cur' = <<>>
    /\ ctxElapsed' = 0
    /\ remoteErr' = FALSE
    /\ remoteRepo' = <<>>
    /\ logDur' = 0
    /\ logOut' = NoOutput
    /\ result' = NoResult

\* main is entered with at most n directories given
InitWith(n) ==
    /\ directories \in SeqsUpTo(RootChoices, n)
    /\ \E f \in FaultChoices : broken = f.broken /\ unreadable = f.unreadable
    /\ pc = "start"
    /\ rootIdx = 1
    /\ todo = <<>>
    /\ walkErr = Nil
    /\ gitProjects = <<>>
    /\ Locals0
    /\ stdout = <<>>
    /\ report = <<>>

Init == InitWith(MaxRoots)

\* main: flag.Parse and the check that a directory was given
CheckArgs ==
    /\ pc = "start"
    /\ IF NoDirectories(directories)
       THEN /\ stdout' = Emit(stdout, "Usage", <<>>)
            /\ pc' = "exit"
       ELSE /\ pc' = "scan"
            /\ UNCHANGED stdout
    /\ UNCHANGED <<directories, broken, unreadable, rootIdx, todo, walkErr, cur,
                   gitProjects, ctxElapsed, remoteErr, remoteRepo, logDur, logOut,
                   result, report>>

\* main: the next root directory, filepath.Walk begins at it
ScanRoot ==
    /\ pc = "scan"
    /\ rootIdx <= Len(directories)
    /\ LET rootDir == TrimPath(directories[rootIdx])
       IN  /\ stdout' = Emit(stdout, "Scanning", rootDir)
           /\ todo' = <<rootDir>>
    /\ walkErr' = Nil
    /\ pc' = "walk"
    /\ UNCHANGED <<directories, broken, unreadable, rootIdx, cur, gitProjects,
                   ctxElapsed, remoteErr, remoteRepo, logDur, logOut, result, report>>

\* filepath.Walk calls the callback for the next path; for a .git directory
\* the callback goes on into getGitInfo
VisitPath ==
    /\ pc = "walk"
    /\ todo # <<>>
    /\ LET path == Head(todo)
       IN  IF LstatFails(path)
           THEN LET next == AfterCallback(WalkFnErrResult, <<>>)
                IN  /\ stdout' = Emit(stdout, "Skipped", path)
                    /\ todo' = next.todo
                    /\ walkErr' = next.err
                    /\ UNCHANGED <<pc, cur, ctxElapsed>>
           ELSE IF ~IsDir(path)
           THEN LET next == AfterCallback(Nil, <<>>)
                IN  /\ todo' = next.todo
                    /\ walkErr' = next.err
                    /\ UNCHANGED <<pc, cur, ctxElapsed, stdout>>
           ELSE IF ReadDirFails(path)
           THEN LET next == AfterCallback(WalkFnErrResult, <<>>)
                IN  /\ stdout' = Emit(Emit(stdout, "Entering", path), "Skipped", path)
                    /\ todo' = next.todo
                    /\ walkErr' = next.err
                    /\ UNCHANGED <<pc, cur, ctxElapsed>>
           ELSE IF HasSuffixGit(path)
           THEN /\ stdout' = Emit(Emit(stdout, "Entering", path), "git", path)
                /\ cur' = path
                /\ ctxElapsed' = 0
                /\ pc' = "remote"
                /\ UNCHANGED <<todo, walkErr>>
           ELSE LET next == AfterCallback(Nil, Children(path))
                IN  /\ stdout' = Emit(Emit(stdout, "Entering", path), ".", path)
                    /\ todo' = next.todo
                    /\ walkErr' = next.err
                    /\ UNCHANGED <<pc, cur, ctxElapsed>>
    /\ UNCHANGED <<directories, broken, unreadable, rootIdx, gitProjects,
                   remoteErr, remoteRepo, logDur, logOut, result, report>>

\* getGitInfo: "git remote get-url origin" under ctx
GitRemote ==
    /\ pc = "remote"
    /\ \E d \in Durations, o \in RemoteOutcomes :
         LET killed == ctxElapsed + d >= Timeout
             after == Min(ctxElapsed + d, Timeout)
             cmdErr == killed \/ o.exit # 0
         IN  /\ ctxElapsed' = after
             /\ remoteErr' = cmdErr
             /\ IF RemoteFatal(cmdErr, CtxErr(after))
                THEN /\ result' = [remote |-> <<>>, date |-> ZeroTime, err |-> "remote timed out"]
                     /\ pc' = "ret"
                     /\ UNCHANGED <<remoteRepo, stdout>>
                ELSE /\ remoteRepo' = IF cmdErr THEN <<>> ELSE TrimSpace(o.out)
                     /\ stdout' = IF cmdErr THEN Emit(stdout, "Warn", Dir(cur)) ELSE stdout
                     /\ pc' = "log"
                     /\ UNCHANGED result
    /\ UNCHANGED <<directories, broken, unreadable, rootIdx, todo, walkErr, cur,
                   gitProjects, logDur, logOut, report>>

\* getGitInfo: "git log -1 --format=%cd --date=iso" under the same ctx, and
\* the parse of what it printed
GitLog ==
    /\ pc = "log"
    /\ \E d \in Durations, o \in LogOutcomes :
         LET killed == d >= LogBudget(ctxElapsed)
             after == IF killed THEN Timeout ELSE ctxElapsed + d
             cmdErr == killed \/ o.exit # 0
             parsed == ParseDate(o.out)
         IN  /\ ctxElapsed' = after
             /\ logDur' = d
             /\ logOut' = IF killed THEN NoOutput ELSE o
             /\ result' =
                  IF cmdErr
                  THEN IF CtxErr(after) = "DeadlineExceeded"
                       THEN [remote |-> remoteRepo, date |-> ZeroTime, err |-> "log timed out"]
                       ELSE [remote |-> remoteRepo, date |-> ZeroTime, err |-> "log failed"]
                  ELSE IF parsed.err # Nil
                  THEN [remote |-> remoteRepo, date |-> ZeroTime, err |-> "parse failed"]
                  ELSE [remote |-> remoteRepo, date |-> parsed.t, err |-> Nil]
    /\ pc' = "ret"
    /\ UNCHANGED <<directories, broken, unreadable, rootIdx, todo, walkErr, cur,
                   gitProjects, remoteErr, remoteRepo, stdout, report>>

\* callback: getGitInfo has returned; the project is recorded or skipped and
\* the callback returns to filepath.Walk
Return ==
    /\ pc = "ret"
    /\ LET projectPath == Dir(cur)
           projectName == Base(projectPath)
       IN  IF SkipProject(result.err)
           THEN /\ stdout' = Emit(stdout, "SkipProject", projectPath)
                /\ UNCHANGED gitProjects
           ELSE /\ gitProjects' = Append(gitProjects,
                                         [Path |-> projectPath,
                                          ProjectName |-> projectName,
                                          RemoteRepo |-> result.remote,
                                          LastCommitDate |-> result.date])
                /\ stdout' = Emit(stdout, "+", projectPath)
    /\ LET next == AfterCallback(GitDirResult, Children(cur))
       IN  /\ todo' = next.todo
           /\ walkErr' = next.err
    /\ ResetLocals
    /\ pc' = "walk"
    /\ UNCHANGED <<directories, broken, unreadable, rootIdx, report>>

\* main: filepath.Walk has returned, its error is printed, the loop goes on
WalkDone ==
    /\ pc = "walk"
    /\ todo = <<>>
    /\ stdout' = IF walkErr # Nil
                 THEN Emit(stdout, "ScanError", TrimPath(directories[rootIdx]))
                 ELSE stdout
    /\ rootIdx' = rootIdx + 1
    /\ pc' = "scan"
    /\ UNCHANGED <<directories, broken, unreadable, todo, walkErr, cur, gitProjects,
                   ctxElapsed, remoteErr, remoteRepo, logDur, logOut, result, report>>

\* main: every root is scanned, the projects are sorted
SortProjects ==
    /\ pc = "scan"
    /\ rootIdx > Len(directories)
    /\ gitProjects' = SortSlice(gitProjects)
    /\ pc' = "create"
    /\ UNCHANGED <<directories, broken, unreadable, rootIdx, todo, walkErr, cur,
                   ctxElapsed, remoteErr, remoteRepo, logDur, logOut, result,
                   stdout, report>>

\* main: os.Create, and when it succeeds the header and one row per project
CreateCSV ==
    /\ pc = "create"
    /\ \E created \in BOOLEAN :
         IF created
         THEN /\ report' = ReportRows(gitProjects)
              /\ stdout' = Emit(stdout, "Saved", <<>>)
              /\ pc' = "done"
         ELSE /\ stdout' = Emit(stdout, "CreateFailed", <<>>)
              /\ pc' = "failed"
              /\ UNCHANGED report
    /\ UNCHANGED <<directories, broken, unreadable, rootIdx, todo, walkErr, cur,
                   gitProjects, ctxElapsed, remoteErr, remoteRepo, logDur, logOut,
                   result>>

Next ==
    \/ CheckArgs
    \/ ScanRoot
    \/ VisitPath
    \/ GitRemote
    \/ GitLog
    \/ Return
    \/ WalkDone
    \/ SortProjects
    \/ CreateCSV

Spec == Init /\ [][Next]_vars

\* the program is one thread that runs until it returns: a step that can be
\* taken is taken
FairSpec == InitWith(MaxFairRoots) /\ [][Next]_vars /\ WF_vars(Next)

----------------------------------------------------------------------------
(* The sort on its own: every list of projects a scan can collect *)

ProjectChoices ==
    { [Path |-> <<S_w, n>>, ProjectName |-> n, RemoteRepo |-> r, LastCommitDate |-> ParseDate(d).t] :
        n \in {S_a, S_b, S_c}, r \in {<<>>, S_x, S_xy}, d \in {DateA, DateB} }

\* main after its scan loop, with any list of projects collected
InitSort ==
    /\ directories = << <<S_w>> >>
    /\ broken = {}
    /\ unreadable = {}
    /\ pc = "scan"
    /\ rootIdx = 2
    /\ todo = <<>>
    /\ walkErr = Nil
    /\ gitProjects \in SeqsUpTo(ProjectChoices, MaxLen)
    /\ Locals0
    /\ stdout = <<>>
    /\ report = <<>>

NextSort == SortProjects \/ CreateCSV

SortSpec == InitSort /\ [][NextSort]_vars

----------------------------------------------------------------------------
(* The order of the sorted projects *)

\* main is past sort.Slice
Sorted == pc \in {"create", "done", "failed"}

HasRemote(project) == project.RemoteRepo # <<>>

AllHaveRemote(projects) == \A i \in DOMAIN projects : HasRemote(projects[i])

AtMostOneHasRemote(projects) ==
    Cardinality({ i \in DOMAIN projects : HasRemote(projects[i]) }) <= 1

\* of two projects with the same remote URL, the one that comes second has
\* no later commit
NewestFirst(projects) ==
    \A i, j \in DOMAIN projects :
        (/\ i < j
         /\ HasRemote(projects[i])
         /\ projects[i].RemoteRepo = projects[j].RemoteRepo)
        => ~After(projects[j].LastCommitDate, projects[i].LastCommitDate)

\* of two projects with different remote URLs, the one that comes second has
\* no smaller URL
RemoteAscending(projects) ==
    \A i, j \in DOMAIN projects :
        (/\ i < j
         /\ HasRemote(projects[i])
         /\ HasRemote(projects[j])
         /\ projects[i].RemoteRepo # projects[j].RemoteRepo)
        => StrLess(projects[i].RemoteRepo, projects[j].RemoteRepo)

\* of two projects one of which has no remote URL, the one that comes second
\* has no smaller name
NameAscending(projects) ==
    \A i, j \in DOMAIN projects :
        (/\ i < j
         /\ (~HasRemote(projects[i]) \/ ~HasRemote(projects[j])))
        => ~StrLess(projects[j].ProjectName, projects[i].ProjectName)

\* C3 as stated: in the sorted list, of any two records with equal non-empty
\* remoteURL the one with the later lastCommitTime comes first, whatever the
\* list holds
C3_NewestFirstInEveryList == Sorted => NewestFirst(gitProjects)

\* C3 amended: in the sorted list, of any two records with equal non-empty
\* remoteURL the one with the later lastCommitTime comes first, for every
\* list in which no record has an empty remoteURL
C3_NewestFirstWhenAllHaveRemote ==
    (Sorted /\ AllHaveRemote(gitProjects)) => NewestFirst(gitProjects)

\* a report with two projects of one remote URL, the newer one first
C3_Witness ==
    /\ pc = "done"
    /\ AllHaveRemote(gitProjects)
    /\ \E i, j \in DOMAIN gitProjects :
          /\ i < j
          /\ gitProjects[i].RemoteRepo = gitProjects[j].RemoteRepo
          /\ After(gitProjects[i].LastCommitDate, gitProjects[j].LastCommitDate)
          /\ gitProjects[i].LastCommitDate.wall < gitProjects[j].LastCommitDate.wall

\* C4 as stated: in the sorted list, of any two records with distinct
\* non-empty remoteURLs the one with the smaller remoteURL comes first,
\* whatever the list holds
C4_RemoteAscendingInEveryList == Sorted => RemoteAscending(gitProjects)

\* C4 amended: in the sorted list, of any two records with distinct non-empty
\* remoteURLs the one with the smaller remoteURL comes first, for every list
\* in which no record has an empty remoteURL
C4_RemoteAscendingWhenAllHaveRemote ==
    (Sorted /\ AllHaveRemote(gitProjects)) => RemoteAscending(gitProjects)

\* a report with two remote URLs, one a prefix of the other, in order
C4_Witness ==
    /\ pc = "done"
    /\ AllHaveRemote(gitProjects)
    /\ \E i, j \in DOMAIN gitProjects :
          /\ i < j
          /\ gitProjects[i].RemoteRepo = S_x
          /\ gitProjects[j].RemoteRepo = S_xy
          /\ StrLess(gitProjects[j].ProjectName, gitProjects[i].ProjectName)

\* C5 as stated: in the sorted list, of any two records at least one of which
\* has an empty remoteURL the one with the smaller name comes first, whatever
\* the list holds
C5_NameAscendingInEveryList == Sorted => NameAscending(gitProjects)

\* C5 amended: in the sorted list, of any two records at least one of which
\* has an empty remoteURL the one with the smaller name comes first, for
\* every list in which at most one record has a non-empty remoteURL
C5_NameAscendingWhenOneHasRemote ==
    (Sorted /\ AtMostOneHasRemote(gitProjects)) => NameAscending(gitProjects)

\* a report where a project with a remote URL stands between two without,
\* by name, the later commit last
C5_Witness ==
    /\ pc = "done"
    /\ Len(gitProjects) = 3
    /\ ~HasRemote(gitProjects[1])
    /\ HasRemote(gitProjects[2])
    /\ ~HasRemote(gitProjects[3])
    /\ StrLess(gitProjects[1].ProjectName, gitProjects[2].ProjectName)
    /\ StrLess(gitProjects[2].ProjectName, gitProjects[3].ProjectName)
    /\ After(gitProjects[3].LastCommitDate, gitProjects[1].LastCommitDate)

----------------------------------------------------------------------------
(* What was printed and what was written *)

\* the lines printed with this tag for this path
Printed(tag, path) ==
    Cardinality({ i \in DOMAIN stdout : stdout[i] = <<tag, path>> })

\* the lines printed with this tag
PrintedTag(tag) == Cardinality({ i \in DOMAIN stdout : stdout[i][1] = tag })

\* the .git directories of the file system and the projects they stand for
GitDirs == { d \in FSDirs : HasSuffixGit(d) }
ProjectPaths == { Dir(d) : d \in GitDirs }

\* the collected projects of this path
Collected(path) ==
    Cardinality({ i \in DOMAIN gitProjects : gitProjects[i].Path = path })

\* the data rows of the report for this path
Reported(path) ==
    Cardinality({ i \in DOMAIN report : i > 1 /\ report[i][2] = path })

\* the callback is inside getGitInfo, or has its result in hand
Extracting == pc \in {"remote", "log", "ret"}

\* C1 as stated: a path whose extraction failed has no row, collected or
\* written, and no row has the zero commit time
C1_NoRowForPathOfFailedExtraction ==
    /\ \A p \in ProjectPaths :
          Printed("SkipProject", p) >= 1 => (Collected(p) = 0 /\ Reported(p) = 0)
    /\ \A i \in DOMAIN gitProjects : gitProjects[i].LastCommitDate # ZeroTime

\* C1 amended: an extraction that fails (timeout, failed command, unparseable
\* date) adds no row: for every project path the rows collected, and then
\* written, are as many as the extractions of it that succeeded, so a path
\* has a row only from an extraction of it that succeeded (the same path
\* reached again from another root); and no row has the zero commit time
C1_FailedExtractionLeavesNoRow ==
    /\ \A i \in DOMAIN gitProjects : gitProjects[i].LastCommitDate # ZeroTime
    /\ \A p \in ProjectPaths :
          /\ Collected(p) + Printed("SkipProject", p)
                + (IF Extracting /\ Dir(cur) = p THEN 1 ELSE 0)
             = Printed("git", Append(p, DotGit))
          /\ Printed("+", p) = Collected(p)
          /\ pc = "done" => Reported(p) = Printed("git", Append(p, DotGit)) - Printed("SkipProject", p)
    /\ \A i \in DOMAIN report : i > 1 => report[i][4] # Format(ZeroTime)
    /\ Len(gitProjects) + PrintedTag("SkipProject") + (IF Extracting THEN 1 ELSE 0)
         = PrintedTag("git")

\* a report written after the extraction of w/a failed and that of
\* w/a/.git/m succeeded: no row for w/a
C1_Witness ==
    /\ pc = "done"
    /\ Printed("SkipProject", <<S_w, S_a>>) = 1
    /\ Reported(<<S_w, S_a>>) = 0
    /\ Reported(<<S_w, S_a, DotGit, S_m>>) = 1

\* the log command ran to its end within the deadline and printed a date
LogSucceeded ==
    /\ logDur > 0
    /\ ctxElapsed < Timeout
    /\ logOut.exit = 0
    /\ logOut.out.wellFormed

\* C2: when the remote command fails without the deadline having passed,
\* getGitInfo goes on to the log command with an empty remote URL, and when
\* that one succeeds with a parseable date exactly one project is recorded,
\* with the empty remote URL and the parsed date
C2_RemoteFailureIsNotFatal ==
    [][ /\ (pc = "remote" /\ remoteErr' /\ ctxElapsed' < Timeout)
            => (pc' = "log" /\ remoteRepo' = <<>>)
        /\ (pc = "ret" /\ remoteErr /\ LogSucceeded)
            => gitProjects' = Append(gitProjects,
                                    [Path |-> Dir(cur),
                                     ProjectName |-> Base(Dir(cur)),
                                     RemoteRepo |-> <<>>,
                                     LastCommitDate |-> [wall |-> logOut.out.wall,
                                                         off |-> logOut.out.off]])
      ]_vars

\* a report with the row of a project whose remote command failed
C2_Witness ==
    /\ pc = "done"
    /\ PrintedTag("Warn") = 1
    /\ PrintedTag("SkipProject") = 0
    /\ \E i \in DOMAIN report :
          /\ i > 1
          /\ report[i][3] = <<>>
          /\ report[i][4] = DateA.wall
          /\ Printed("Warn", report[i][2]) = 1

----------------------------------------------------------------------------
(* The scan *)

\* the scan loop of main is over
Scanned == Sorted \/ (pc = "scan" /\ rootIdx > Len(directories))

IsPrefix(p, q) == Len(p) <= Len(q) /\ SubSeq(q, 1, Len(p)) = p

\* directory d lies under root, nothing from root down to d fails lstat, and
\* every directory from root down to the parent of d can be listed
Reachable(root, d) ==
    /\ IsPrefix(root, d)
    /\ \A k \in Len(root)..Len(d) : ~LstatFails(SubSeq(d, 1, k))
    /\ \A k \in Len(root)..(Len(d) - 1) :
          IsDir(SubSeq(d, 1, k)) /\ ~ReadDirFails(SubSeq(d, 1, k))

\* the roots given from which d is reachable
RootsReaching(d) ==
    Cardinality({ i \in DOMAIN directories : Reachable(TrimPath(directories[i]), d) })

\* C6: no error on a path or on a root ends the scan: once the scan is over
\* every root given was scanned, every directory was entered once from each
\* root it is reachable from through readable directories, and every .git
\* directory so reached that can itself be listed was handed to getGitInfo
C6_ErrorsDoNotAbortTheScan ==
    Scanned =>
        /\ PrintedTag("Scanning") = Len(directories)
        /\ \A d \in FSDirs : Printed("Entering", d) = RootsReaching(d)
        /\ \A g \in GitDirs :
              Printed("git", g) = (IF ReadDirFails(g) THEN 0 ELSE RootsReaching(g))

\* a scan of two roots over: w/.l could not be lstat-ed under the first, the
\* project w/a beside it was handed to getGitInfo all the same, and so was
\* one under the second root
C6_Witness ==
    /\ Scanned
    /\ Len(directories) = 2
    /\ \E i \in DOMAIN stdout :
          /\ stdout[i] = <<"Skipped", <<S_w, S_dotl>>>>
          /\ \E j \in DOMAIN stdout :
                /\ j > i
                /\ stdout[j] = <<"git", <<S_w, S_a, DotGit>>>>
                /\ \E k \in DOMAIN stdout :
                      /\ k > j
                      /\ stdout[k][1] = "Scanning"
                      /\ \E l \in DOMAIN stdout : l > k /\ stdout[l][1] = "git"

\* the same elements, each as many times
SameBag(s, t) ==
    /\ Len(s) = Len(t)
    /\ \A i \in DOMAIN s :
          Cardinality({ j \in DOMAIN s : s[j] = s[i] })
            = Cardinality({ j \in DOMAIN t : t[j] = s[i] })

\* C7: the sort keeps the collected projects, each as many times as it was
\* collected; the report is the header row and then one row per collected
\* project, in the sorted order, with the fields of that project; the rows of
\* a path are as many as its successful extractions, so a path scanned from
\* two roots has two rows and a scan that finds nothing leaves the header
C7_ReportIsHeaderAndOneRowPerProject ==
    [][ /\ (pc = "scan" /\ pc' = "create") => SameBag(gitProjects, gitProjects')
        /\ (pc = "create" /\ pc' = "done") =>
              /\ Len(report') = Len(gitProjects) + 1
              /\ report'[1] = Header
              /\ \A i \in DOMAIN gitProjects :
                    report'[i + 1] = <<gitProjects[i].ProjectName,
                                       gitProjects[i].Path,
                                       gitProjects[i].RemoteRepo,
                                       gitProjects[i].LastCommitDate.wall>>
              /\ Len(report') = PrintedTag("+") + 1
              /\ \A p \in ProjectPaths :
                    Cardinality({ i \in DOMAIN report' : i > 1 /\ report'[i][2] = p })
                      = Printed("+", p)
      ]_vars

\* a report with two rows for w/a, reached from the root "w " given twice
C7_Witness ==
    /\ pc = "done"
    /\ directories = << <<S_w \o SP>>, <<S_w \o SP>> >>
    /\ Reported(<<S_w, S_a>>) = 2
    /\ \E i \in DOMAIN report : i > 2 /\ report[i][3] # report[i - 1][3]

\* C8: a run given at least one root reaches the creation of the report
\* file, whatever failed on the way
C8_ReachesReportWriting ==
    (pc = "start" /\ Len(directories) >= 1) ~> (pc = "create")

\* main about to create the report after a scan with a traversal error, a
\* skipped project and no project collected
C8_Witness ==
    /\ pc = "create"
    /\ PrintedTag("Skipped") >= 1
    /\ PrintedTag("SkipProject") >= 1
    /\ gitProjects = <<>>

\* C9 as stated: the log command has ten seconds of its own, so one that is
\* reported as timed out needed at least ten seconds
C9_LogHasItsOwnTimeout ==
    (pc = "ret" /\ result.err = "log timed out") => logDur >= Timeout

\* path lies inside a .git directory
InsideGit(path) == \E k \in 1..(Len(path) - 1) : path[k] = DotGit

\* C10 as stated: the walk does not go into a .git directory, so nothing
\* inside one is visited and no directory inside one is recorded as a project
C10_NoDescentIntoGit ==
    /\ \A i \in DOMAIN stdout : ~InsideGit(stdout[i][2])
    /\ \A i \in DOMAIN gitProjects : ~InsideGit(gitProjects[i].Path)
    /\ \A path \in FSPaths : (pc = "walk" /\ todo # <<>> /\ Head(todo) = path) => ~InsideGit(path)

====
